---- MODULE Spec2Model ----
(***************************************************************************)
(* The authentication modal of ShowGo (src/src/components/AuthModal.tsx)   *)
(* as a state machine.  The component stays mounted while it is closed     *)
(* (it renders null when isOpen is false, line 198), so its React state    *)
(* outlives a closing.  Every event handler runs to completion and React   *)
(* commits the state updates and runs the effects of the resulting render  *)
(* before the next event is handled, so one handler plus the effects it    *)
(* triggers is one action.  The only suspend point is the await of the     *)
(* remote call in handleSubmit: the part before it and the part after it   *)
(* are two actions, connected by the queue of outstanding calls.           *)
(*                                                                         *)
(* Strings are TLA+ strings; Len, SubSeq and \o act on them character by   *)
(* character, which is what trim, includes, length and the e-mail regular  *)
(* expression are defined with below.                                      *)
(*                                                                         *)
(* The second part of the module is the database the application runs on,  *)
(* as the two migrations under src/supabase/migrations leave it: the       *)
(* tables auth.users, user_profiles and registrations, the trigger that    *)
(* creates a profile for every new account, and the row-level-security     *)
(* policies of the two public tables.  The modal and the database share no *)
(* state (the auth collaborator between them is not part of the sources),  *)
(* so each has its own next-state relation and specification: Spec is the  *)
(* modal over an untouched database, SpecDb the database under an          *)
(* untouched modal.                                                        *)
(***************************************************************************)
EXTENDS Integers, Sequences, FiniteSets, TLC

VARIABLES
    isOpen,               \* prop isOpen (line 6)
    initialMode,          \* prop initialMode (lines 8, 26)
    mode,                 \* useState, line 27
    formData,             \* useState, lines 28-33
    errors,               \* useState, line 34
    isSubmitting,         \* useState, line 35
    isSuccess,            \* useState, line 36
    showPassword,         \* useState, line 37
    showConfirmPassword,  \* useState, line 38
    pending,              \* remote calls awaited at lines 151/153, oldest first
    timers,               \* setTimeout callbacks of line 175 not yet run
    auth_users,           \* rows of auth.users
    user_profiles,        \* rows of public.user_profiles
    registrations,        \* rows of public.registrations
    outcome               \* what the last database statement returned

vars == <<isOpen, initialMode, mode, formData, errors, isSubmitting, isSuccess,
          showPassword, showConfirmPassword, pending, timers>>

dbVars == <<auth_users, user_profiles, registrations, outcome>>

allVars == <<vars, dbVars>>

(***************************************************************************)
(* Bounds of the model.                                                    *)
(***************************************************************************)
\* Remote calls that may be outstanding before the model stops starting more.
MaxPending == 2
\* Auto-close timers that may be waiting before the model stops submitting.
MaxTimers == 2

(***************************************************************************)
(* Types and literals of the component.                                    *)
(***************************************************************************)
Modes == {"signin", "signup"}

FieldNames == {"email", "password", "fullName", "confirmPassword"}

ErrorKeys == FieldNames \cup {"general"}

\* The value of a key that an errors object does not carry (or carries as
\* undefined, line 133): both read as undefined and both are falsy.
Undefined == "<undefined>"

EmptyFormData ==
    [email |-> "", password |-> "", fullName |-> "", confirmPassword |-> ""]

NoErrors == [k \in ErrorKeys |-> Undefined]

\* The object literal { key: message } handed to setErrors.
OnlyError(key, message) == [k \in ErrorKeys |-> IF k = key THEN message ELSE Undefined]

(***************************************************************************)
(* String primitives of JavaScript used by the component.                  *)
(***************************************************************************)
\* \s of the regular expression and the characters String.prototype.trim drops.
WhiteSpace == {" ", "\t", "\n"}

CharAt(s, i) == SubSeq(s, i, i)

\* String.prototype.trim() yields the empty string.
TrimIsEmpty(s) == \A i \in 1..Len(s) : CharAt(s, i) \in WhiteSpace

\* String.prototype.includes(pattern): case-sensitive substring search.
Includes(s, pattern) ==
    \E i \in 1..(Len(s) - Len(pattern) + 1) : SubSeq(s, i, i + Len(pattern) - 1) = pattern

\* /^[^\s@]+@[^\s@]+\.[^\s@]+$/.test(s): an '@' at position a and a '.' at
\* position d with a non-empty run before a, between a and d, and after d,
\* and no white space or '@' anywhere but at a.
EmailRegexTest(s) ==
    \E a \in 2..Len(s) : \E d \in (a + 2)..(Len(s) - 1) :
        /\ CharAt(s, a) = "@"
        /\ CharAt(s, d) = "."
        /\ \A i \in (1..Len(s)) \ {a} : CharAt(s, i) \notin (WhiteSpace \cup {"@"})

(***************************************************************************)
(* validateForm, lines 91-125.                                             *)
(***************************************************************************)
\* The e-mail check without the else-if of lines 97-99.
EmailError_RequiredOnly(fd) ==
    IF TrimIsEmpty(fd.email) THEN "Email is required" ELSE Undefined

EmailError(fd) ==
    IF TrimIsEmpty(fd.email) THEN "Email is required"
    ELSE IF ~EmailRegexTest(fd.email) THEN "Please enter a valid email address"
    ELSE Undefined

\* The password check without the else-if of lines 104-106.
PasswordError_RequiredOnly(fd) ==
    IF fd.password = "" THEN "Password is required" ELSE Undefined

PasswordError(fd) ==
    IF fd.password = "" THEN "Password is required"
    ELSE IF Len(fd.password) < 6 THEN "Password must be at least 6 characters"
    ELSE Undefined

\* The full-name check without the else-if of lines 112-114.
FullNameError_RequiredOnly(fd, m) ==
    IF m # "signup" THEN Undefined
    ELSE IF TrimIsEmpty(fd.fullName) THEN "Full name is required"
    ELSE Undefined

FullNameError(fd, m) ==
    IF m # "signup" THEN Undefined
    ELSE IF TrimIsEmpty(fd.fullName) THEN "Full name is required"
    ELSE IF Len(fd.fullName) < 2 THEN "Full name must be at least 2 characters"
    ELSE Undefined

\* The confirmation check without the else-if of lines 118-120.
ConfirmPasswordError_RequiredOnly(fd, m) ==
    IF m # "signup" THEN Undefined
    ELSE IF fd.confirmPassword = "" THEN "Please confirm your password"
    ELSE Undefined

ConfirmPasswordError(fd, m) ==
    IF m # "signup" THEN Undefined
    ELSE IF fd.confirmPassword = "" THEN "Please confirm your password"
    ELSE IF fd.password # fd.confirmPassword THEN "Passwords do not match"
    ELSE Undefined

\* The object newErrors built by validateForm and handed to setErrors.
NewErrors(fd, m) ==
    [k \in ErrorKeys |->
        CASE k = "email" -> EmailError(fd)
          [] k = "password" -> PasswordError(fd)
          [] k = "fullName" -> FullNameError(fd, m)
          [] k = "confirmPassword" -> ConfirmPasswordError(fd, m)
          [] OTHER -> Undefined]

\* The return value of validateForm: Object.keys(newErrors).length === 0.
validateForm(fd, m) == \A k \in ErrorKeys : NewErrors(fd, m)[k] = Undefined

(***************************************************************************)
(* The result of the remote call and its mapping to errors, lines 156-172  *)
(* and 179-181.                                                            *)
(***************************************************************************)
\* result.error.message is absent (the ?. and || of lines 159-171 cover it).
NoMessage == "<no message>"

\* result.error.message?.includes(pattern)
MessageIncludes(message, pattern) ==
    message # NoMessage /\ Includes(message, pattern)

\* The chain of lines 159-172 without the second alternative of line 162.
ErrorsForMessage_WithoutSecondAlternative(message) ==
    IF MessageIncludes(message, "Invalid login credentials")
        THEN OnlyError("general", "Invalid email or password")
    ELSE IF MessageIncludes(message, "User already registered")
        THEN OnlyError("email", "An account with this email already exists")
    ELSE IF MessageIncludes(message, "Password should be at least")
        THEN OnlyError("password", "Password must be at least 6 characters long")
    ELSE IF MessageIncludes(message, "Unable to validate email address")
        THEN OnlyError("email", "Please enter a valid email address")
    ELSE IF MessageIncludes(message, "Email not confirmed")
        THEN OnlyError("general",
                 "Please check your email and confirm your account before signing in")
    ELSE OnlyError("general",
             IF message = NoMessage \/ message = ""
                 THEN "An unexpected error occurred. Please try again."
                 ELSE message)

\* The argument of setErrors chosen by the if/else-if chain of lines 159-172.
ErrorsForMessage(message) ==
    IF MessageIncludes(message, "Invalid login credentials")
        THEN OnlyError("general", "Invalid email or password")
    ELSE IF \/ MessageIncludes(message, "User already registered")
            \/ MessageIncludes(message, "already been registered")
        THEN OnlyError("email", "An account with this email already exists")
    ELSE IF MessageIncludes(message, "Password should be at least")
        THEN OnlyError("password", "Password must be at least 6 characters long")
    ELSE IF MessageIncludes(message, "Unable to validate email address")
        THEN OnlyError("email", "Please enter a valid email address")
    ELSE IF MessageIncludes(message, "Email not confirmed")
        THEN OnlyError("general",
                 "Please check your email and confirm your account before signing in")
    ELSE OnlyError("general",
             IF message = NoMessage \/ message = ""
                 THEN "An unexpected error occurred. Please try again."
                 ELSE message)

\* The argument of setErrors in the catch block, line 181.
ConnectionErrors ==
    OnlyError("general", "Connection error. Please check your internet and try again.")

(***************************************************************************)
(* Inputs: what the user types and what the remote service answers.        *)
(***************************************************************************)
\* Values typed into a field during a lifecycle of the modal.
InputValues(name) ==
    CASE name = "email" -> {"", " ", "ab.c", "a@b", "a b@c.d", "a@b.c"}
      [] name = "password" -> {"", "abc", "abcdef", "hunter1"}
      [] name = "fullName" -> {"", "  ", "A", "Al"}
      [] name = "confirmPassword" -> {"", "abcdef", "hunter1"}

\* Messages of the error a remote call may resolve with.
RemoteMessages ==
    { "Invalid login credentials",
      "Invalid login credentials for user",
      "invalid login credentials",
      "User already registered",
      "A user with this email address has already been registered",
      "Password should be at least 6 characters",
      "Unable to validate email address: invalid format",
      "Email not confirmed",
      "Email not confirmed; Password should be at least 6 characters",
      "Email rate limit exceeded",
      "",
      NoMessage }

\* ErrorsForMessage on the messages above, evaluated once.
ErrorsOfRemoteMessage == [msg \in RemoteMessages |-> ErrorsForMessage(msg)]

\* What the awaited call produces: an object without error, an object with
\* an error, or an exception.
Results ==
    {[kind |-> "ok"], [kind |-> "throw"]}
        \cup {[kind |-> "error", message |-> msg] : msg \in RemoteMessages}

(***************************************************************************)
(* Construction, lines 26-38: closed, nothing outstanding.                 *)
(***************************************************************************)
\* SQL NULL.
Null == "<null>"

\* No database statement has run yet.
NoOutcome == [status |-> "none", rows |-> {}]

Init ==
    /\ isOpen = FALSE
    /\ initialMode \in Modes
    /\ mode = initialMode
    /\ formData = EmptyFormData
    /\ errors = NoErrors
    /\ isSubmitting = FALSE
    /\ isSuccess = FALSE
    /\ showPassword = FALSE
    /\ showConfirmPassword = FALSE
    /\ pending = <<>>
    /\ timers = <<>>
    /\ auth_users = {}
    /\ user_profiles = {}
    /\ registrations = {}
    /\ outcome = NoOutcome

(***************************************************************************)
(* A render with new props and the effect of lines 71-83 that follows it.  *)
(* The effect runs when isOpen or initialMode differs from the previous    *)
(* render and resets only when the new isOpen is false.                    *)
(***************************************************************************)
Render(open, im) ==
    /\ isOpen' = open
    /\ initialMode' = im
    /\ IF (open # isOpen \/ im # initialMode) /\ ~open
          THEN /\ formData' = EmptyFormData
               /\ errors' = NoErrors
               /\ isSuccess' = FALSE
               /\ mode' = im
          ELSE UNCHANGED <<formData, errors, isSuccess, mode>>
    /\ UNCHANGED <<isSubmitting, showPassword, showConfirmPassword, pending>>

(***************************************************************************)
(* A waiting timer is the callback of line 176 together with two notes on  *)
(* what has happened since setTimeout was called: whether onClose has been *)
(* invoked (closedSince) and whether the modal has been shown anew         *)
(* (openedSince).  The code reads neither; the properties do.              *)
(***************************************************************************)
NewTimer == [closedSince |-> FALSE, openedSince |-> FALSE]

NoteClosed(ts) == [i \in 1..Len(ts) |-> [ts[i] EXCEPT !.closedSince = TRUE]]

NoteOpened(ts) == [i \in 1..Len(ts) |-> [ts[i] EXCEPT !.openedSince = TRUE]]

\* The parent shows the modal, with the initialMode it passes in that update.
Open(im) ==
    /\ ~isOpen
    /\ Render(TRUE, im)
    /\ timers' = NoteOpened(timers)

\* The parent passes another initialMode without touching isOpen.
SetInitialMode(im) ==
    /\ im # initialMode
    /\ Render(isOpen, im)
    /\ UNCHANGED timers

\* onClose(): the parent's handler hides the modal; ts are the timers that
\* remain waiting.
onClose(ts) ==
    /\ Render(FALSE, initialMode)
    /\ timers' = NoteClosed(ts)

(***************************************************************************)
(* The three ways the user closes the modal.                               *)
(***************************************************************************)
\* Close button, lines 213-220: rendered whenever the modal is.
CloseButtonClick ==
    /\ isOpen
    /\ onClose(timers)

\* handleBackdropClick, lines 85-89.
handleBackdropClick(targetIsBackdrop) ==
    /\ isOpen
    /\ IF targetIsBackdrop THEN onClose(timers) ELSE UNCHANGED vars

\* handleEscKey, lines 53-57; the listener is attached only while isOpen.
handleEscKey(key) ==
    /\ isOpen
    /\ IF key = "Escape" THEN onClose(timers) ELSE UNCHANGED vars

(***************************************************************************)
(* The form, rendered while the modal is open and shows no success         *)
(* (lines 198, 227, 239-240).                                              *)
(***************************************************************************)
\* A render without the isSuccess branch of lines 227-239.
FormRendered_DuringSuccess == isOpen

FormRendered == isOpen /\ ~isSuccess

\* The fullName and confirmPassword inputs exist in signup mode only
\* (lines 252, 346).
FieldRendered(name) ==
    FormRendered /\ (name \in {"fullName", "confirmPassword"} => mode = "signup")

\* handleInputChange with setErrors({}) in place of lines 132-133.
handleInputChange_ClearsAllErrors(name, value) ==
    /\ isOpen /\ ~isSuccess
    /\ name \in {"fullName", "confirmPassword"} => mode = "signup"
    /\ formData' = [formData EXCEPT ![name] = value]
    /\ errors' = IF errors[name] \notin {Undefined, ""}
                    THEN [k \in ErrorKeys |-> Undefined] ELSE errors
    /\ UNCHANGED <<isOpen, initialMode, mode, isSubmitting, isSuccess,
                   showPassword, showConfirmPassword, pending, timers>>

\* handleInputChange without lines 131-134.
handleInputChange_KeepsError(name, value) ==
    /\ isOpen /\ ~isSuccess
    /\ name \in {"fullName", "confirmPassword"} => mode = "signup"
    /\ formData' = [formData EXCEPT ![name] = value]
    /\ UNCHANGED <<isOpen, initialMode, mode, errors, isSubmitting, isSuccess,
                   showPassword, showConfirmPassword, pending, timers>>

\* handleInputChange, lines 127-135.
handleInputChange(name, value) ==
    /\ FieldRendered(name)
    /\ formData' = [formData EXCEPT ![name] = value]
    /\ errors' = IF errors[name] \notin {Undefined, ""}
                    THEN [errors EXCEPT ![name] = Undefined]
                    ELSE errors
    /\ UNCHANGED <<isOpen, initialMode, mode, isSubmitting, isSuccess,
                   showPassword, showConfirmPassword, pending, timers>>

\* The eye button of the password input, line 331.
ToggleShowPassword ==
    /\ FieldRendered("password")
    /\ showPassword' = ~showPassword
    /\ UNCHANGED <<isOpen, initialMode, mode, formData, errors, isSubmitting,
                   isSuccess, showConfirmPassword, pending, timers>>

\* The eye button of the confirm-password input, line 367.
ToggleShowConfirmPassword ==
    /\ FieldRendered("confirmPassword")
    /\ showConfirmPassword' = ~showConfirmPassword
    /\ UNCHANGED <<isOpen, initialMode, mode, formData, errors, isSubmitting,
                   isSuccess, showPassword, pending, timers>>

\* switchMode resetting the form as the close effect does, e-mail included.
switchMode_ClearsEmail ==
    /\ isOpen /\ ~isSuccess
    /\ mode' = IF mode = "signin" THEN "signup" ELSE "signin"
    /\ errors' = NoErrors
    /\ formData' = EmptyFormData
    /\ UNCHANGED <<isOpen, initialMode, isSubmitting, isSuccess,
                   showPassword, showConfirmPassword, pending, timers>>

\* switchMode, lines 187-196; its button is part of the form (lines 401-407).
switchMode ==
    /\ FormRendered
    /\ mode' = IF mode = "signin" THEN "signup" ELSE "signin"
    /\ errors' = NoErrors
    /\ formData' = [email |-> formData.email, password |-> "",
                    fullName |-> "", confirmPassword |-> ""]
    /\ UNCHANGED <<isOpen, initialMode, isSubmitting, isSuccess,
                   showPassword, showConfirmPassword, pending, timers>>

(***************************************************************************)
(* handleSubmit, lines 137-185.                                            *)
(***************************************************************************)
\* The call without the branch on mode of line 150.
RemoteCall_AlwaysSignIn(fd, m) ==
    [op |-> "signIn", args |-> <<fd.email, fd.password>>]

\* The call of line 151 or 153, chosen by the mode of the submitting render.
RemoteCall(fd, m) ==
    IF m = "signup"
        THEN [op |-> "signUp", args |-> <<fd.email, fd.password, fd.fullName>>]
        ELSE [op |-> "signIn", args |-> <<fd.email, fd.password>>]

\* A submit control without the disabled attribute of line 384.
SubmitEnabled_NeverDisabled == isOpen /\ ~isSuccess

\* The submit control is disabled while isSubmitting (line 384); a form whose
\* submit button is disabled is not submitted by the Enter key either.
SubmitEnabled == FormRendered /\ ~isSubmitting

\* handleSubmit without the early return of lines 140-142: the errors of
\* validateForm are set, and the call is made all the same.
handleSubmit_WithoutEarlyReturn ==
    /\ SubmitEnabled
    /\ Len(pending) < MaxPending
    /\ Len(timers) < MaxTimers
    /\ isSubmitting' = TRUE
    /\ errors' = NoErrors
    /\ pending' = Append(pending, RemoteCall(formData, mode))
    /\ UNCHANGED <<isOpen, initialMode, mode, formData, isSuccess,
                   showPassword, showConfirmPassword, timers>>

\* Lines 137-154: from the submit event to the await.  The handler is taken
\* to run on any form: the browser's own checks of the required and
\* type="email" attributes, which may keep the submit event from firing, are
\* not relied on.
handleSubmit ==
    /\ SubmitEnabled
    /\ Len(pending) < MaxPending
    /\ Len(timers) < MaxTimers
    /\ IF ~validateForm(formData, mode)
          THEN /\ errors' = NewErrors(formData, mode)
               /\ UNCHANGED <<isSubmitting, pending>>
          ELSE /\ isSubmitting' = TRUE
               /\ errors' = NoErrors
               /\ pending' = Append(pending, RemoteCall(formData, mode))
    /\ UNCHANGED <<isOpen, initialMode, mode, formData, isSuccess,
                   showPassword, showConfirmPassword, timers>>

RemoveAt(seq, i) == SubSeq(seq, 1, i - 1) \o SubSeq(seq, i + 1, Len(seq))

\* The continuation with a failure handling that also empties the password.
handleSubmitResume_ClearsPassword(i, result) ==
    /\ i \in 1..Len(pending)
    /\ pending' = SubSeq(pending, 1, i - 1) \o SubSeq(pending, i + 1, Len(pending))
    /\ CASE result.kind = "error" ->
              /\ errors' = ErrorsOfRemoteMessage[result.message]
              /\ formData' = [formData EXCEPT !.password = ""]
              /\ UNCHANGED <<isSuccess, timers>>
         [] result.kind = "ok" ->
              /\ isSuccess' = TRUE
              /\ timers' = Append(timers, [closedSince |-> FALSE,
                                           openedSince |-> FALSE])
              /\ UNCHANGED <<errors, formData>>
         [] result.kind = "throw" ->
              /\ errors' = [k \in ErrorKeys |->
                              IF k = "general"
                                THEN "Connection error. Please check your internet and try again."
                                ELSE Undefined]
              /\ formData' = [formData EXCEPT !.password = ""]
              /\ UNCHANGED <<isSuccess, timers>>
    /\ isSubmitting' = FALSE
    /\ UNCHANGED <<isOpen, initialMode, mode, showPassword, showConfirmPassword>>

\* The continuation with setIsSubmitting(false) as the last statement of the
\* try block instead of the finally block of lines 182-184.
handleSubmitResume_WithoutFinally(i, result) ==
    /\ i \in 1..Len(pending)
    /\ pending' = SubSeq(pending, 1, i - 1) \o SubSeq(pending, i + 1, Len(pending))
    /\ CASE result.kind = "error" ->
              /\ errors' = ErrorsOfRemoteMessage[result.message]
              /\ isSubmitting' = FALSE
              /\ UNCHANGED <<isSuccess, timers>>
         [] result.kind = "ok" ->
              /\ isSuccess' = TRUE
              /\ timers' = Append(timers, NewTimer)
              /\ isSubmitting' = FALSE
              /\ UNCHANGED errors
         [] result.kind = "throw" ->
              /\ errors' = ConnectionErrors
              /\ UNCHANGED <<isSuccess, timers, isSubmitting>>
    /\ UNCHANGED <<isOpen, initialMode, mode, formData,
                   showPassword, showConfirmPassword>>

\* Lines 156-184: the continuation after the await, for the i-th outstanding
\* call and what it produced.
handleSubmitResume(i, result) ==
    /\ i \in 1..Len(pending)
    /\ pending' = RemoveAt(pending, i)
    /\ CASE result.kind = "error" ->
              /\ errors' = ErrorsOfRemoteMessage[result.message]
              /\ UNCHANGED <<isSuccess, timers>>
         [] result.kind = "ok" ->
              /\ isSuccess' = TRUE
              /\ timers' = Append(timers, NewTimer)
              /\ UNCHANGED errors
         [] result.kind = "throw" ->
              /\ errors' = ConnectionErrors
              /\ UNCHANGED <<isSuccess, timers>>
    /\ isSubmitting' = FALSE
    /\ UNCHANGED <<isOpen, initialMode, mode, formData,
                   showPassword, showConfirmPassword>>

\* The delay of setTimeout, line 177.  Time is not modelled: within the delay
\* any sequence of events may happen, so the callback runs at any later step.
AutoCloseDelayMs == 1500

\* The callback of setTimeout, lines 175-177; the timeout is never cleared.

TimerFire(i) ==
    /\ i \in 1..Len(timers)
    /\ onClose(RemoveAt(timers, i))

(***************************************************************************)
(* The specification of the modal over its whole life.                     *)
(***************************************************************************)
Next ==
    \/ (\E im \in Modes : Open(im)) /\ UNCHANGED dbVars
    \/ (\E im \in Modes : SetInitialMode(im)) /\ UNCHANGED dbVars
    \/ CloseButtonClick /\ UNCHANGED dbVars
    \/ (\E b \in BOOLEAN : handleBackdropClick(b)) /\ UNCHANGED dbVars
    \/ (\E key \in {"Escape", "Enter"} : handleEscKey(key)) /\ UNCHANGED dbVars
    \/ (\E name \in FieldNames : \E value \in InputValues(name) :
           handleInputChange(name, value)) /\ UNCHANGED dbVars
    \/ ToggleShowPassword /\ UNCHANGED dbVars
    \/ ToggleShowConfirmPassword /\ UNCHANGED dbVars
    \/ switchMode /\ UNCHANGED dbVars
    \/ handleSubmit /\ UNCHANGED dbVars
    \/ (\E i \in 1..MaxPending : \E result \in Results :
           handleSubmitResume(i, result)) /\ UNCHANGED dbVars
    \/ (\E i \in 1..MaxTimers : TimerFire(i)) /\ UNCHANGED dbVars

Spec == Init /\ [][Next]_allVars

(***************************************************************************)
(* The database.  20250808054800_sparkling_wildflower.sql is the later of  *)
(* the two migrations: it replaces the trigger function and drops and      *)
(* recreates every policy of 20250808054401_rough_darkness.sql (lines      *)
(* 67-70, 111-115), so the definitions below are its functions, triggers   *)
(* and policies.  The columns of user_profiles and the CHECK on role are   *)
(* those of the schema in the README (src/unnamed/part_000, lines 56-67).  *)
(*                                                                         *)
(* A statement of role authenticated is subject to the policies; the table *)
(* owner and the service role are not (row security is enabled, lines 64   *)
(* and 108, not forced): the trigger function is SECURITY DEFINER and the  *)
(* Table Editor of the README works as such a role.                        *)
(***************************************************************************)
\* Registration rows the model keeps at most.
MaxRegistrations == 2

\* Account ids (UUIDs).
Ids == {"u1", "u2"}

\* The addresses of line 163.
ReservedEmails == {"admin@showgo.com", "support@showgo.com"}

Emails == ReservedEmails \cup {"ann@example.com"}

\* raw_user_meta_data of a new account: the key the trigger reads and a key
\* it does not read.
MetaData == { [full_name |-> n, role |-> r] : n \in {Null, "Al"},
                                               r \in {Null, "admin"} }

\* The values of CHECK (role IN ('user', 'admin')), part_000 line 62.
Roles == {"user", "admin"}

\* The CHECK is satisfied when its expression is true or NULL: the column is
\* not declared NOT NULL.
RoleCheck(role) == role = Null \/ role \in Roles

\* Values an UPDATE of the application may try to store in role.
RoleInputs == Roles \cup {"root", Null}

\* The role claim of the caller's JWT, read at line 164.
JwtRoles == {"authenticated", "admin"}

\* An authenticated caller: auth.uid() and auth.jwt() ->> 'role'.
Callers == [uid : Ids, role : JwtRoles]

\* The columns of registrations the policies read.
RegistrationRows == [user_id : Ids, user_email : Emails]

Commands == {"SELECT", "INSERT", "UPDATE", "DELETE"}

Accounts == { u.id : u \in auth_users }

\* The caller holds a token of an existing account.
Authenticated(c) == c.uid \in Accounts

\* (SELECT email FROM user_profiles WHERE id = auth.uid()): NULL without a row.
ProfileEmail(uid) ==
    IF \E p \in user_profiles : p.id = uid
      THEN (CHOOSE p \in user_profiles : p.id = uid).email
      ELSE Null

\* EXISTS (SELECT 1 FROM user_profiles WHERE id = auth.uid() AND role = 'admin').
HasAdminRole(uid) == \E p \in user_profiles : p.id = uid /\ p.role = "admin"

\* The expression of the four "Users can ... their own registrations"
\* policies; a comparison with NULL is not true.
OwnRegistration(c, row) ==
    \/ c.uid = row.user_id
    \/ ProfileEmail(c.uid) # Null /\ row.user_email = ProfileEmail(c.uid)

\* The policies: table, command, and the tables their expressions select from.
Policies == {
    [name |-> "Users can view their own profile",
     tbl |-> "user_profiles", cmd |-> "SELECT", sublinks |-> {}],
    [name |-> "Users can update their own profile",
     tbl |-> "user_profiles", cmd |-> "UPDATE", sublinks |-> {}],
    [name |-> "Admins can view all profiles",
     tbl |-> "user_profiles", cmd |-> "SELECT", sublinks |-> {"user_profiles"}],
    [name |-> "Admins can update all profiles",
     tbl |-> "user_profiles", cmd |-> "UPDATE", sublinks |-> {"user_profiles"}],
    [name |-> "Users can view their own registrations",
     tbl |-> "registrations", cmd |-> "SELECT", sublinks |-> {"user_profiles"}],
    [name |-> "Users can insert their own registrations",
     tbl |-> "registrations", cmd |-> "INSERT", sublinks |-> {"user_profiles"}],
    [name |-> "Users can update their own registrations",
     tbl |-> "registrations", cmd |-> "UPDATE", sublinks |-> {"user_profiles"}],
    [name |-> "Users can delete their own registrations",
     tbl |-> "registrations", cmd |-> "DELETE", sublinks |-> {"user_profiles"}],
    [name |-> "Admins can view all registrations",
     tbl |-> "registrations", cmd |-> "SELECT", sublinks |-> {"user_profiles"}] }

\* USING, or WITH CHECK, of the policy with this name for caller c and a row.
PolicyExpr(name, c, row) ==
    CASE name = "Users can view their own profile" -> c.uid = row.id
      [] name = "Users can update their own profile" -> c.uid = row.id
      [] name = "Admins can view all profiles" -> HasAdminRole(c.uid)
      [] name = "Admins can update all profiles" -> HasAdminRole(c.uid)
      [] name = "Users can view their own registrations" -> OwnRegistration(c, row)
      [] name = "Users can insert their own registrations" -> OwnRegistration(c, row)
      [] name = "Users can update their own registrations" -> OwnRegistration(c, row)
      [] name = "Users can delete their own registrations" -> OwnRegistration(c, row)
      [] name = "Admins can view all registrations" ->
             \/ HasAdminRole(c.uid)
             \/ ProfileEmail(c.uid) \in ReservedEmails
             \/ c.role = "admin"

\* The permissive policies of a table for one command are OR-ed; without a
\* policy for the command no row passes.
Admits(tbl, cmd, c, row) ==
    \E pol \in Policies :
        pol.tbl = tbl /\ pol.cmd = cmd /\ PolicyExpr(pol.name, c, row)

\* The policies a statement is rewritten with: an UPDATE or DELETE names its
\* rows in a WHERE clause, which reads them under the SELECT policies too.
CommandsApplied(cmd) ==
    IF cmd \in {"UPDATE", "DELETE"} THEN {cmd, "SELECT"} ELSE {cmd}

(***************************************************************************)
(* PostgreSQL adds the policy expressions to the query when it rewrites    *)
(* it, and rewrites the sub-selects of those expressions in turn, under    *)
(* the SELECT policies of the tables they read.  A table whose policies    *)
(* have sub-selects and that is met again while its own policies are being *)
(* expanded ends the statement with "infinite recursion detected in policy *)
(* for relation".  activeRIRs is the set of tables being expanded.         *)
(***************************************************************************)
RECURSIVE InfiniteRecursion(_, _, _)
InfiniteRecursion(tbl, cmds, activeRIRs) ==
    LET sublinks == UNION { pol.sublinks :
                            pol \in { q \in Policies : q.tbl = tbl /\ q.cmd \in cmds } }
    IN  /\ sublinks # {}
        /\ \/ tbl \in activeRIRs
           \/ \E t \in sublinks :
                  InfiniteRecursion(t, {"SELECT"}, activeRIRs \cup {tbl})

\* The statement's command on this row of the table goes through for caller c.
Granted(c, tbl, cmd, row) ==
    /\ ~InfiniteRecursion(tbl, CommandsApplied(cmd), {})
    /\ \A k \in CommandsApplied(cmd) : Admits(tbl, k, c, row)

Ok(rows) == [status |-> "ok", rows |-> rows]

Failed(message) == [status |-> message, rows |-> {}]

RecursionError == Failed("infinite recursion detected in policy for relation")

RlsError == Failed("new row violates row-level security policy")

CheckError == Failed("new row violates check constraint")

\* The INSERT of lines 24-30 fails: the primary key, the CHECK on role, or
\* any other error (fault) the handler of line 33 is there for.
ProfileInsertFails(row, fault) ==
    \/ \E p \in user_profiles : p.id = row.id
    \/ ~RoleCheck(row.role)
    \/ fault

\* The trigger function with the role taken from the account's metadata.
create_user_profile_RoleFromMetaData(New, fault) ==
    LET row == [id |-> New.id,
                full_name |-> IF New.raw_user_meta_data.full_name = Null
                                THEN "" ELSE New.raw_user_meta_data.full_name,
                email |-> New.email,
                role |-> IF New.raw_user_meta_data.role = Null
                           THEN "user" ELSE New.raw_user_meta_data.role]
    IN  IF ProfileInsertFails(row, fault)
          THEN [profiles |-> user_profiles, warning |-> TRUE, raised |-> FALSE]
          ELSE [profiles |-> user_profiles \cup {row}, warning |-> FALSE,
                raised |-> FALSE]

\* The trigger function without the EXCEPTION block of lines 32-36.
create_user_profile_WithoutHandler(New, fault) ==
    LET row == [id |-> New.id,
                full_name |-> IF New.raw_user_meta_data.full_name = Null
                                THEN "" ELSE New.raw_user_meta_data.full_name,
                email |-> New.email,
                role |-> "user"]
    IN  IF ProfileInsertFails(row, fault)
          THEN [profiles |-> user_profiles, warning |-> FALSE, raised |-> TRUE]
          ELSE [profiles |-> user_profiles \cup {row}, warning |-> FALSE,
                raised |-> FALSE]

\* create_user_profile(), lines 21-38: the profiles after it, whether it
\* raised a warning, and whether it raised an exception.
create_user_profile(New, fault) ==
    LET row == [id |-> New.id,
                full_name |-> IF New.raw_user_meta_data.full_name = Null
                                THEN "" ELSE New.raw_user_meta_data.full_name,
                email |-> New.email,
                role |-> "user"]
    IN  IF ProfileInsertFails(row, fault)
          THEN [profiles |-> user_profiles, warning |-> TRUE, raised |-> FALSE]
          ELSE [profiles |-> user_profiles \cup {row}, warning |-> FALSE,
                raised |-> FALSE]

\* INSERT INTO auth.users and create_user_profile_trigger (lines 50-54),
\* AFTER INSERT FOR EACH ROW: an exception of the trigger aborts the insert.
CreateAccount(id, email, meta, fault) ==
    /\ id \notin Accounts
    /\ \A u \in auth_users : u.email # email
    /\ LET New == [id |-> id, email |-> email, raw_user_meta_data |-> meta]
           t == create_user_profile(New, fault)
       IN  IF t.raised
             THEN /\ outcome' = Failed("Database error saving new user")
                  /\ UNCHANGED <<auth_users, user_profiles>>
             ELSE /\ auth_users' = auth_users \cup {New}
                  /\ user_profiles' = t.profiles
                  /\ outcome' = IF t.warning THEN Failed("warning") ELSE Ok({})
    /\ UNCHANGED registrations

\* "How to Make a User an Admin" of the README (part_000, lines 5-25): the
\* Table Editor, which bypasses row security, stores a role in a profile.
TableEditorSetRole(id, role) ==
    /\ \E p \in user_profiles : p.id = id
    /\ IF ~RoleCheck(role)
         THEN outcome' = CheckError /\ UNCHANGED user_profiles
         ELSE /\ user_profiles' =
                     { IF p.id = id THEN [p EXCEPT !.role = role] ELSE p :
                       p \in user_profiles }
              /\ outcome' = Ok({})
    /\ UNCHANGED <<auth_users, registrations>>

\* A registration row written by a role that bypasses row security (the
\* rows the table holds when its policies are replaced at lines 108-115).
OwnerInsertRegistration(row) ==
    /\ Cardinality(registrations) < MaxRegistrations
    /\ row.user_id \in Accounts
    /\ row \notin registrations
    /\ registrations' = registrations \cup {row}
    /\ outcome' = Ok({})
    /\ UNCHANGED <<auth_users, user_profiles>>

\* SELECT * FROM user_profiles as role authenticated.
SelectProfiles(c) ==
    /\ Authenticated(c)
    /\ outcome' = IF InfiniteRecursion("user_profiles", {"SELECT"}, {})
                    THEN RecursionError
                    ELSE Ok({ p \in user_profiles :
                              Granted(c, "user_profiles", "SELECT", p) })
    /\ UNCHANGED <<auth_users, user_profiles, registrations>>

\* UPDATE user_profiles SET role = ... WHERE id = ... as role authenticated.
\* The UPDATE policies have no WITH CHECK, so USING is applied to the new row.
UpdateProfile(c, id, role) ==
    /\ Authenticated(c)
    /\ LET old == { p \in user_profiles :
                    p.id = id /\ Granted(c, "user_profiles", "UPDATE", p) }
           new(p) == [p EXCEPT !.role = role]
       IN  IF InfiniteRecursion("user_profiles", CommandsApplied("UPDATE"), {})
             THEN outcome' = RecursionError /\ UNCHANGED user_profiles
           ELSE IF old # {} /\ ~RoleCheck(role)
             THEN outcome' = CheckError /\ UNCHANGED user_profiles
           ELSE IF \E p \in old : ~Admits("user_profiles", "UPDATE", c, new(p))
             THEN outcome' = RlsError /\ UNCHANGED user_profiles
           ELSE /\ user_profiles' = (user_profiles \ old) \cup { new(p) : p \in old }
                /\ outcome' = Ok({ new(p) : p \in old })
    /\ UNCHANGED <<auth_users, registrations>>

\* SELECT * FROM registrations as role authenticated.
SelectRegistrations(c) ==
    /\ Authenticated(c)
    /\ outcome' = IF InfiniteRecursion("registrations", {"SELECT"}, {})
                    THEN RecursionError
                    ELSE Ok({ r \in registrations :
                              Granted(c, "registrations", "SELECT", r) })
    /\ UNCHANGED <<auth_users, user_profiles, registrations>>

\* INSERT INTO registrations as role authenticated.
InsertRegistration(c, row) ==
    /\ Authenticated(c)
    /\ Cardinality(registrations) < MaxRegistrations
    /\ row \notin registrations
    /\ IF InfiniteRecursion("registrations", {"INSERT"}, {})
         THEN outcome' = RecursionError /\ UNCHANGED registrations
       ELSE IF ~Admits("registrations", "INSERT", c, row)
         THEN outcome' = RlsError /\ UNCHANGED registrations
       ELSE /\ registrations' = registrations \cup {row}
            /\ outcome' = Ok({row})
    /\ UNCHANGED <<auth_users, user_profiles>>

\* UPDATE registrations SET user_email = ... WHERE the row is this one, as
\* role authenticated; USING is applied to the new row as well.
UpdateRegistration(c, row, email) ==
    /\ Authenticated(c)
    /\ row \in registrations
    /\ LET new == [row EXCEPT !.user_email = email]
       IN  IF InfiniteRecursion("registrations", CommandsApplied("UPDATE"), {})
             THEN outcome' = RecursionError /\ UNCHANGED registrations
           ELSE IF ~Granted(c, "registrations", "UPDATE", row)
             THEN outcome' = Ok({}) /\ UNCHANGED registrations
           ELSE IF ~Admits("registrations", "UPDATE", c, new)
             THEN outcome' = RlsError /\ UNCHANGED registrations
           ELSE /\ registrations' = (registrations \ {row}) \cup {new}
                /\ outcome' = Ok({new})
    /\ UNCHANGED <<auth_users, user_profiles>>

\* DELETE FROM registrations WHERE the row is this one, as role authenticated.
DeleteRegistration(c, row) ==
    /\ Authenticated(c)
    /\ row \in registrations
    /\ IF InfiniteRecursion("registrations", CommandsApplied("DELETE"), {})
         THEN outcome' = RecursionError /\ UNCHANGED registrations
       ELSE IF ~Granted(c, "registrations", "DELETE", row)
         THEN outcome' = Ok({}) /\ UNCHANGED registrations
       ELSE /\ registrations' = registrations \ {row}
            /\ outcome' = Ok({row})
    /\ UNCHANGED <<auth_users, user_profiles>>

DbNext ==
    \/ (\E id \in Ids : \E email \in Emails : \E meta \in MetaData :
        \E fault \in BOOLEAN : CreateAccount(id, email, meta, fault))
           /\ UNCHANGED vars
    \/ (\E id \in Ids : \E role \in Roles : TableEditorSetRole(id, role))
           /\ UNCHANGED vars
    \/ (\E row \in RegistrationRows : OwnerInsertRegistration(row))
           /\ UNCHANGED vars
    \/ (\E c \in Callers : SelectProfiles(c)) /\ UNCHANGED vars
    \/ (\E c \in Callers : \E id \in Ids : \E role \in RoleInputs :
           UpdateProfile(c, id, role)) /\ UNCHANGED vars
    \/ (\E c \in Callers : SelectRegistrations(c)) /\ UNCHANGED vars
    \/ (\E c \in Callers : \E row \in RegistrationRows :
           InsertRegistration(c, row)) /\ UNCHANGED vars
    \/ (\E c \in Callers : \E row \in RegistrationRows : \E email \in Emails :
           UpdateRegistration(c, row, email)) /\ UNCHANGED vars
    \/ (\E c \in Callers : \E row \in RegistrationRows :
           DeleteRegistration(c, row)) /\ UNCHANGED vars

\* The migrated, empty database; the modal is mounted and never opened.
DbInit == Init /\ initialMode = "signin"

SpecDb == DbInit /\ [][DbNext]_allVars

(***************************************************************************)
(* Properties.                                                             *)
(***************************************************************************)
HasFieldError(e) == \E k \in FieldNames : e[k] # Undefined

\* C1: a remote call is started only by a submission whose form validateForm
\* accepts; a submission it rejects starts no call, leaves isSubmitting and
\* isSuccess false and the mode as it was, and leaves at least one
\* field-level error in errors.
C1_ValidationGatesRemoteCall ==
    [][ /\ Len(pending') > Len(pending) => validateForm(formData, mode)
        /\ (handleSubmit /\ ~validateForm(formData, mode)) =>
              /\ pending' = pending
              /\ ~isSubmitting' /\ ~isSuccess'
              /\ mode' = mode
              /\ HasFieldError(errors') ]_vars

\* A rejected submission has happened: the messages of validateForm are
\* displayed and nothing was sent.
C1_Witness ==
    /\ isOpen /\ ~isSubmitting /\ pending = <<>>
    /\ errors["email"] = "Email is required"
    /\ errors["password"] = "Password is required"

\* C2: a call that resolves while the modal is closed changes neither
\* errors, isSuccess nor the form data and schedules no close, and a modal
\* that is shown again starts with an empty form, no errors and no success
\* display.
C2_LateResultHasNoEffect ==
    [][ /\ (~isOpen /\ Len(pending') < Len(pending)) =>
              /\ errors' = errors
              /\ isSuccess' = isSuccess
              /\ formData' = formData
              /\ timers' = timers
        /\ (~isOpen /\ isOpen') =>
              /\ formData' = EmptyFormData
              /\ errors' = NoErrors
              /\ ~isSuccess' ]_vars

\* C3: a successful result shows the success display and sets the timer, and
\* the timer's onClose is the only onClose after that success: when the timer
\* runs, onClose has not been invoked since the success (it is no second
\* invocation) and the modal has not been shown anew since (it closes no
\* later opening).
C3_AutoCloseExactlyOnce ==
    [][ /\ \A i \in 1..Len(pending) :
              handleSubmitResume(i, [kind |-> "ok"]) =>
                  isSuccess' /\ Len(timers') = Len(timers) + 1
        /\ \A i \in 1..Len(timers) :
              TimerFire(i) => ~timers[i].closedSince /\ ~timers[i].openedSince ]_vars

\* C4: at most one remote call is outstanding, isSubmitting is true exactly
\* while one is, and the submit control is then disabled.
C4_SingleOutstandingRequest ==
    /\ Len(pending) <= 1
    /\ isSubmitting <=> (pending # <<>>)
    /\ pending # <<>> => ~SubmitEnabled

\* A call is outstanding while the form is open and could otherwise be
\* submitted again.
C4_Witness ==
    /\ Len(pending) = 1 /\ isSubmitting
    /\ isOpen /\ ~isSuccess
    /\ validateForm(formData, mode)

\* C5: when the modal goes from closed to shown, mode equals the initialMode
\* passed in that update.
C5_ShownInInitialMode ==
    [][ (~isOpen /\ isOpen') => mode' = initialMode' ]_vars

\* C6: a step that closes the modal leaves every transient field reset.
C6_CloseResetsAllTransientState ==
    [][ (isOpen /\ ~isOpen') =>
            /\ formData' = EmptyFormData
            /\ errors' = NoErrors
            /\ ~isSuccess' /\ ~isSubmitting'
            /\ ~showPassword' /\ ~showConfirmPassword'
            /\ mode' = initialMode' ]_vars

\* C7: switchMode flips the mode, empties password, confirmPassword and
\* fullName, empties errors, and keeps email as typed.
C7_SwitchModeKeepsEmailOnly ==
    [][ switchMode =>
            /\ mode' \in Modes \ {mode}
            /\ formData'.password = ""
            /\ formData'.confirmPassword = ""
            /\ formData'.fullName = ""
            /\ errors' = NoErrors
            /\ formData'.email = formData.email ]_vars

\* The modal is open in the mode other than the one it was opened in, with
\* the typed e-mail still there and the rest of the form and errors empty.
C7_Witness ==
    /\ isOpen /\ ~isSuccess
    /\ mode = "signup" /\ initialMode = "signin"
    /\ formData = [EmptyFormData EXCEPT !.email = "a b@c.d"]
    /\ errors = NoErrors

\* The table of the error-message mapping, first row first.
ErrorTable ==
    << [patterns |-> {"Invalid login credentials"},
        key |-> "general", text |-> "Invalid email or password"],
       [patterns |-> {"User already registered", "already been registered"},
        key |-> "email", text |-> "An account with this email already exists"],
       [patterns |-> {"Password should be at least"},
        key |-> "password", text |-> "Password must be at least 6 characters long"],
       [patterns |-> {"Unable to validate email address"},
        key |-> "email", text |-> "Please enter a valid email address"],
       [patterns |-> {"Email not confirmed"},
        key |-> "general",
        text |-> "Please check your email and confirm your account before signing in"] >>

RowMatches(r, msg) ==
    msg # NoMessage /\ \E p \in ErrorTable[r].patterns : Includes(msg, p)

\* The first row of the table that matches each message, 0 when none does.
FirstMatchingRow ==
    [msg \in RemoteMessages |->
        CHOOSE r \in 0..Len(ErrorTable) :
            /\ r > 0 => RowMatches(r, msg)
            /\ \A q \in 1..Len(ErrorTable) : RowMatches(q, msg) => r > 0 /\ q >= r]

\* C8: when a call resolves with an error, errors becomes the single entry of
\* the first table row one of whose patterns occurs in the message; so
\* "Invalid login credentials for user" gives the general error and no field
\* error, and "already been registered" gives the email error and no
\* password error.
C8_ErrorTableFirstMatch ==
    [][ \A i \in 1..Len(pending) : \A msg \in RemoteMessages :
          handleSubmitResume(i, [kind |-> "error", message |-> msg]) =>
            /\ FirstMatchingRow[msg] > 0 =>
                  \A k \in ErrorKeys :
                      errors'[k] = IF k = ErrorTable[FirstMatchingRow[msg]].key
                                      THEN ErrorTable[FirstMatchingRow[msg]].text
                                      ELSE Undefined
            /\ msg = "Invalid login credentials for user" =>
                  errors'["general"] = "Invalid email or password" /\ ~HasFieldError(errors')
            /\ msg = "A user with this email address has already been registered" =>
                  /\ errors'["email"] = "An account with this email already exists"
                  /\ errors'["password"] = Undefined ]_vars

\* The e-mail field shows the message of the second row after a sign-up
\* was answered.
C8_Witness ==
    /\ isOpen /\ ~isSubmitting /\ pending = <<>> /\ mode = "signup"
    /\ errors = OnlyError("email", "An account with this email already exists")

\* C9: a call that resolves with an error or throws leaves isSubmitting and
\* isSuccess false; a thrown call gives the connection-error message, and an
\* error that matches no table row gives its raw message as the general
\* error, or the generic fallback when the message is empty or absent.
C9_FailureReturnsToForm ==
    [][ \A i \in 1..Len(pending) : \A r \in Results \ {[kind |-> "ok"]} :
          handleSubmitResume(i, r) =>
            /\ ~isSubmitting' /\ ~isSuccess'
            /\ r.kind = "throw" =>
                  errors' = OnlyError("general",
                      "Connection error. Please check your internet and try again.")
            /\ (r.kind = "error" /\ FirstMatchingRow[r.message] = 0) =>
                  errors' = OnlyError("general",
                      IF r.message \in {"", NoMessage}
                          THEN "An unexpected error occurred. Please try again."
                          ELSE r.message) ]_vars

\* The form is editable again and shows the connection-error message.
C9_Witness ==
    /\ isOpen /\ ~isSubmitting /\ ~isSuccess /\ pending = <<>>
    /\ errors["general"] = "Connection error. Please check your internet and try again."

HasChar(s, chars) == \E i \in 1..Len(s) : CharAt(s, i) \in chars

\* No '.' follows an '@' of s.
NoDotAfterAt(s) ==
    \A a \in 1..Len(s) : CharAt(s, a) = "@" =>
        \A d \in (a + 1)..Len(s) : CharAt(s, d) # "."

\* C10: a submission whose e-mail is empty, blank, without '@', without a
\* '.' after the '@' or with white space in it gets an email error and starts
\* no call; the empty e-mail gets "Email is required", and "a@b" with
\* password "hunter1" gets "Please enter a valid email address".
C10_MalformedEmailRejected ==
    [][ handleSubmit =>
          /\ ( \/ ~HasChar(formData.email, {"@"})
               \/ NoDotAfterAt(formData.email)
               \/ HasChar(formData.email, WhiteSpace) ) =>
                 errors'["email"] # Undefined /\ pending' = pending
          /\ formData.email = "" => errors'["email"] = "Email is required"
          /\ (formData.email = "a@b" /\ formData.password = "hunter1") =>
                 /\ errors'["email"] = "Please enter a valid email address"
                 /\ pending' = pending ]_vars

\* "a@b" with "hunter1" was submitted and rejected for the e-mail alone.
C10_Witness ==
    /\ isOpen /\ mode = "signin" /\ pending = <<>> /\ ~isSubmitting
    /\ formData.email = "a@b" /\ formData.password = "hunter1"
    /\ errors = OnlyError("email", "Please enter a valid email address")

\* C11: a submission whose password is empty or shorter than 6 characters
\* gets a password error and starts no call, whatever the other fields hold;
\* a password of 6 or more characters gets no password error.
C11_ShortPasswordRejected ==
    [][ handleSubmit =>
          /\ Len(formData.password) < 6 =>
                 errors'["password"] # Undefined /\ pending' = pending
          /\ Len(formData.password) >= 6 => errors'["password"] = Undefined ]_vars

\* "abc" was submitted with a well-formed e-mail and rejected.
C11_Witness ==
    /\ isOpen /\ pending = <<>> /\ ~isSubmitting
    /\ formData.email = "a@b.c" /\ formData.password = "abc"
    /\ errors = OnlyError("password", "Password must be at least 6 characters")

\* C12: in signup mode a non-empty confirmation that differs from the
\* password gets "Passwords do not match" on confirmPassword and starts no
\* call, also when both are 6 characters or longer; an empty confirmation
\* gets "Please confirm your password".
C12_ConfirmationMustMatch ==
    [][ (handleSubmit /\ mode = "signup") =>
          /\ (formData.confirmPassword # ""
                /\ formData.confirmPassword # formData.password) =>
                 /\ errors'["confirmPassword"] = "Passwords do not match"
                 /\ pending' = pending
          /\ formData.confirmPassword = "" =>
                 /\ errors'["confirmPassword"] = "Please confirm your password"
                 /\ pending' = pending ]_vars

\* Two passwords of 6 and 7 characters were submitted and the confirmation
\* alone was rejected.
C12_Witness ==
    /\ isOpen /\ mode = "signup" /\ pending = <<>> /\ ~isSubmitting
    /\ formData.password = "abcdef" /\ formData.confirmPassword = "hunter1"
    /\ errors = OnlyError("confirmPassword", "Passwords do not match")

\* C13: in signup mode a full name that is empty or shorter than 2
\* characters gets a fullName error and starts no call; with a well-formed
\* e-mail, name "A", password and confirmation "abcdef", fullName is the only
\* key of errors; a name of 2 or more characters that is not all white space
\* gets no fullName error.
C13_FullNameAtLeastTwoCharacters ==
    [][ (handleSubmit /\ mode = "signup") =>
          /\ Len(formData.fullName) < 2 =>
                 errors'["fullName"] # Undefined /\ pending' = pending
          /\ ( /\ EmailRegexTest(formData.email)
               /\ formData.fullName = "A"
               /\ formData.password = "abcdef"
               /\ formData.confirmPassword = "abcdef" ) =>
                 /\ \A k \in ErrorKeys : errors'[k] # Undefined <=> k = "fullName"
                 /\ pending' = pending
          /\ ( /\ Len(formData.fullName) >= 2
               /\ \E i \in 1..Len(formData.fullName) :
                      CharAt(formData.fullName, i) \notin WhiteSpace ) =>
                 errors'["fullName"] = Undefined ]_vars

\* The scenario of the claim was submitted: only fullName carries an error.
C13_Witness ==
    /\ isOpen /\ mode = "signup" /\ pending = <<>> /\ ~isSubmitting
    /\ formData = [email |-> "a@b.c", password |-> "abcdef",
                   fullName |-> "A", confirmPassword |-> "abcdef"]
    /\ errors = OnlyError("fullName", "Full name must be at least 2 characters")

\* C14: while the modal stays open with isSuccess true, isSuccess stays true,
\* no call is started and no further success is recorded; and a success is
\* only ever recorded from a state in which isSuccess is false.
C14_OneSuccessPerLifecycle ==
    [][ /\ (isOpen /\ isSuccess /\ isOpen') =>
              /\ isSuccess'
              /\ Len(pending') <= Len(pending)
              /\ Len(timers') <= Len(timers)
        /\ \A i \in 1..Len(pending) :
              handleSubmitResume(i, [kind |-> "ok"]) => ~isSuccess ]_vars

\* The success display is shown and its timer is waiting.
C14_Witness ==
    /\ isOpen /\ isSuccess /\ pending = <<>>
    /\ timers = <<NewTimer>>

\* C15: an edit of a field sets the field to the new value and leaves that
\* field without an error.
C15_EditClearsFieldError ==
    [][ \A name \in FieldNames : \A value \in InputValues(name) :
          handleInputChange(name, value) =>
              /\ formData'[name] = value
              /\ errors'[name] = Undefined
              /\ \A k \in ErrorKeys \ {name} : errors'[k] = errors[k] ]_vars

\* After a rejected submission the e-mail was edited to a value that is
\* still malformed: its error is gone while the password error remains.
C15_Witness ==
    /\ isOpen /\ ~isSuccess
    /\ formData.email = "a@b"
    /\ errors = OnlyError("password", "Password is required")

\* An admin of the spec: profile role 'admin' or a reserved profile e-mail.
IsAdmin(c) == HasAdminRole(c.uid) \/ ProfileEmail(c.uid) \in ReservedEmails

\* C16: a caller is granted SELECT, INSERT, UPDATE and DELETE on a
\* registration row exactly when it is the row's user_id, or its profile
\* e-mail is the row's user_email, or it is an admin.
C16_RegistrationAccess ==
    \A c \in Callers : \A row \in RegistrationRows : \A cmd \in Commands :
        Authenticated(c) =>
            ( Granted(c, "registrations", cmd, row)
                <=> (OwnRegistration(c, row) \/ IsAdmin(c)) )

\* C17: an account creation always adds the account row and returns without
\* an error; when the profile INSERT goes through, exactly one profile row
\* carries the new id; when it fails, the profiles are as before and a
\* warning is all that is raised.
C17_AccountCreationNeverBlocked ==
    [][ \A id \in Ids \ Accounts : \A email \in Emails : \A meta \in MetaData :
        \A fault \in BOOLEAN :
          CreateAccount(id, email, meta, fault) =>
            /\ \E u \in auth_users' \ auth_users : u.id = id
            /\ outcome'.status \in {"ok", "warning"}
            /\ ~fault =>
                  /\ Cardinality({ p \in user_profiles' : p.id = id }) = 1
                  /\ outcome'.status = "ok"
            /\ fault =>
                  /\ user_profiles' = user_profiles
                  /\ outcome'.status = "warning" ]_allVars

\* An account exists without a profile and its creation returned a warning.
C17_Witness ==
    /\ outcome.status = "warning"
    /\ \E u \in auth_users : \A p \in user_profiles : p.id # u.id

\* C18: a caller is granted SELECT and UPDATE on a profile row exactly when
\* it is the row's id or its own profile has role 'admin'.
C18_ProfileAccess ==
    \A c \in Callers : \A p \in user_profiles : \A cmd \in {"SELECT", "UPDATE"} :
        Authenticated(c) =>
            ( Granted(c, "user_profiles", cmd, p)
                <=> (c.uid = p.id \/ HasAdminRole(c.uid)) )

\* The table and command have a policy that admits every caller whose
\* profile has role 'admin', on every row.
AdminRoleAdmitted(tbl, cmd) ==
    \E pol \in Policies :
        /\ pol.tbl = tbl /\ pol.cmd = cmd
        /\ pol.name \in { "Admins can view all profiles",
                          "Admins can update all profiles",
                          "Admins can view all registrations" }

\* C19: wherever the policies admit the callers of role 'admin' on every
\* row, they admit on every row a caller whose profile e-mail is reserved,
\* whatever role its profile stores.
C19_ReservedEmailIsAdminEverywhere ==
    \A c \in Callers :
        (Authenticated(c) /\ ProfileEmail(c.uid) \in ReservedEmails) =>
            \A cmd \in Commands :
                /\ AdminRoleAdmitted("user_profiles", cmd) =>
                       \A p \in user_profiles :
                           Admits("user_profiles", cmd, c, p)
                /\ AdminRoleAdmitted("registrations", cmd) =>
                       \A r \in registrations :
                           Admits("registrations", cmd, c, r)

\* C20: every profile row has role 'user' or 'admin', and every profile row
\* added by a step that adds an account has role 'user', whatever the
\* account's metadata.
C20_RoleIsUserOrAdmin ==
    /\ [](\A p \in user_profiles : p.role \in Roles)
    /\ [][ auth_users' # auth_users =>
              \A p \in user_profiles' \ user_profiles : p.role = "user" ]_allVars

\* An account that signed up with role 'admin' in its metadata has a profile
\* of role 'user', next to a profile the Table Editor promoted.
C20_Witness ==
    /\ \E u \in auth_users : \E p \in user_profiles :
           /\ u.raw_user_meta_data.role = "admin"
           /\ p.id = u.id /\ p.role = "user"
    /\ \E p \in user_profiles : p.role = "admin"

\* C21: a submission that validateForm accepts starts exactly one call:
\* signUp(email, password, fullName) in signup mode, signIn(email, password)
\* in signin mode, with the form values of that moment; and in signin mode
\* no value of fullName or confirmPassword gets an error or changes what
\* validateForm answers.
C21_CallChosenByMode ==
    [][ handleSubmit =>
          /\ validateForm(formData, mode) =>
                pending' = Append(pending,
                    IF mode = "signup"
                      THEN [op |-> "signUp",
                            args |-> <<formData.email, formData.password,
                                       formData.fullName>>]
                      ELSE [op |-> "signIn",
                            args |-> <<formData.email, formData.password>>])
          /\ mode = "signin" =>
                /\ errors'["fullName"] = Undefined
                /\ errors'["confirmPassword"] = Undefined
                /\ \A fn \in InputValues("fullName") :
                   \A cp \in InputValues("confirmPassword") :
                      LET fd == [formData EXCEPT !.fullName = fn,
                                                 !.confirmPassword = cp]
                      IN  /\ validateForm(fd, mode) <=> validateForm(formData, mode)
                          /\ NewErrors(fd, mode)["fullName"] = Undefined
                          /\ NewErrors(fd, mode)["confirmPassword"] = Undefined ]_vars

\* A signUp call with the values of its submission is outstanding, and the
\* user has switched to signin mode since.
C21_Witness ==
    /\ isOpen /\ mode = "signin" /\ isSubmitting
    /\ pending = << [op |-> "signUp", args |-> <<"a@b.c", "abcdef", "Al">>] >>

\* C22: when a call resolves without error while the modal is open, the mode
\* the success display is rendered with is the mode the call was submitted
\* in.
C22_SuccessTextMatchesRequest ==
    [][ \A i \in 1..Len(pending) :
          (isOpen /\ handleSubmitResume(i, [kind |-> "ok"])) =>
              /\ isOpen' /\ isSuccess'
              /\ mode' = "signup" <=> pending[i].op = "signUp" ]_vars

\* C23: a call that resolves with an error or throws leaves errors with
\* exactly one key and leaves formData and mode as they were.
C23_FailureKeepsInput ==
    [][ \A i \in 1..Len(pending) : \A result \in Results :
          (result.kind # "ok" /\ handleSubmitResume(i, result)) =>
              /\ Cardinality({ k \in ErrorKeys : errors'[k] # Undefined }) = 1
              /\ formData' = formData
              /\ mode' = mode ]_vars

\* A sign-in failed and the form still holds what was submitted.
C23_Witness ==
    /\ isOpen /\ ~isSubmitting /\ ~isSuccess /\ mode = "signin"
    /\ pending = <<>>
    /\ formData.email = "a@b.c" /\ formData.password = "abcdef"
    /\ errors = OnlyError("general", "Invalid email or password")

\* C24: an edit of a field changes nothing but that field's value and that
\* field's error; and while the modal stays open a general error is changed
\* only by a submission or a mode toggle.
C24_EditTouchesOneField ==
    [][ /\ \A name \in FieldNames : \A value \in InputValues(name) :
              handleInputChange(name, value) =>
                  /\ \A f \in FieldNames \ {name} : formData'[f] = formData[f]
                  /\ \A k \in ErrorKeys \ {name} : errors'[k] = errors[k]
                  /\ mode' = mode
                  /\ isSubmitting' = isSubmitting
                  /\ isSuccess' = isSuccess
        /\ ( /\ isOpen /\ isOpen'
             /\ errors["general"] # Undefined
             /\ errors'["general"] # errors["general"] ) =>
                  handleSubmit \/ switchMode ]_vars

\* After a failed sign-in the e-mail was edited to a value no submission
\* accepts, and the general error is still shown.
C24_Witness ==
    /\ isOpen /\ ~isSuccess
    /\ formData.email = "a@b"
    /\ errors = OnlyError("general", "Invalid email or password")

====
